---- MODULE Spec2Model ----
(***************************************************************************)
(* Sexagenary (heavenly stem / earthly branch) pillars of a year, a month, *)
(* a day and a double-hour, as computed by                                 *)
(* src/calendar/heavenlyStemAndEarthlyBranch.ts.                           *)
(*                                                                         *)
(* The module is a library of pure functions.  Each function is an         *)
(* operator that computes what the TypeScript computes, with JavaScript's  *)
(* semantics kept where they matter: `%` is the truncated remainder (its   *)
(* sign follows the dividend), an array read outside 0..length-1 yields    *)
(* undefined, Array.join renders undefined as the empty string and         *)
(* Array.indexOf yields -1 for an absent element.                          *)
(*                                                                         *)
(* A behaviour is one call: from the idle state one exported function is   *)
(* applied to inputs drawn from bounded sets and its result is recorded.   *)
(*                                                                         *)
(* The ten stems and twelve branches are single symbols in the program     *)
(* (Chinese characters); here each symbol is an ASCII name.  A string is   *)
(* the sequence of its symbols, the space being the symbol " ".            *)
(***************************************************************************)
EXTENDS Integers, Sequences, FiniteSets, TLC

VARIABLES
    term,   \* the day of the month the stubbed getTerm collaborator answers
    fn,     \* "idle", or the name of the function that has been called
    args,   \* the arguments of the call
    result  \* what the call returned

vars == <<term, fn, args, result>>

------------------------------------------------------------------------------
(* Bounds of the model *)

\* years -MaxYearSpan..MaxYearSpan and 1900..1984+MaxYearSpan reach the year rule
MaxYearSpan == 65
\* the stubbed solar-term boundary day ranges over 4..MaxTermDay
MaxTermDay == 8

------------------------------------------------------------------------------
(* Static tables (../data) *)

undefined == "undefined"

HEAVENLY_STEMS ==
    << "jiaHeavenly", "yiHeavenly", "bingHeavenly", "dingHeavenly", "wuHeavenly",
       "jiHeavenly", "gengHeavenly", "xinHeavenly", "renHeavenly", "guiHeavenly" >>

EARTHLY_BRANCHES ==
    << "ziEarthly", "chouEarthly", "yinEarthly", "maoEarthly", "chenEarthly", "siEarthly",
       "wuEarthly", "weiEarthly", "shenEarthly", "youEarthly", "xuEarthly", "haiEarthly" >>

StemSet == { HEAVENLY_STEMS[i] : i \in 1..Len(HEAVENLY_STEMS) }
BranchSet == { EARTHLY_BRANCHES[i] : i \in 1..Len(EARTHLY_BRANCHES) }

\* the five-rats rule: the stem of the first double-hour of a day, by day stem
RAT_RULE ==
    [ s \in StemSet |->
        CASE s \in {"jiaHeavenly", "jiHeavenly"}   -> "jiaHeavenly"
          [] s \in {"yiHeavenly", "gengHeavenly"}  -> "bingHeavenly"
          [] s \in {"bingHeavenly", "xinHeavenly"} -> "wuHeavenly"
          [] s \in {"dingHeavenly", "renHeavenly"} -> "gengHeavenly"
          [] s \in {"wuHeavenly", "guiHeavenly"}   -> "renHeavenly" ]

------------------------------------------------------------------------------
(* JavaScript primitives the code relies on *)

\* a % m of JavaScript, m > 0: truncated, so negative for a negative dividend
JsRem(a, m) == IF a >= 0 THEN a % m ELSE 0 - ((0 - a) % m)

\* table[i] of JavaScript on a zero-based array
JsAt(table, i) == IF i \in 0..(Len(table) - 1) THEN table[i + 1] ELSE undefined

\* table.indexOf(x)
JsIndexOf(table, x) ==
    IF \E i \in 1..Len(table) : table[i] = x
    THEN (CHOOSE i \in 1..Len(table) : table[i] = x) - 1
    ELSE 0 - 1

\* pillar.join(''): undefined elements render as the empty string
JsJoin(pillar) == SelectSeq(pillar, LAMBDA x : x # undefined)

\* RAT_RULE[stem]: a property read, undefined for a key that is absent
JsRatRule(stem) == IF stem \in DOMAIN RAT_RULE THEN RAT_RULE[stem] ELSE undefined

IsLeapYear(y) == (y % 4 = 0 /\ y % 100 # 0) \/ y % 400 = 0

DaysInMonth(y, m) ==
    IF m = 2 THEN (IF IsLeapYear(y) THEN 29 ELSE 28)
    ELSE IF m \in {4, 6, 9, 11} THEN 30 ELSE 31

\* Date.UTC(year, monthIndex, day, 0, 0, 0, 0) / 86400000: the whole days from
\* 1970-01-01 to the date in the proleptic Gregorian calendar (the quotient is
\* exact, a UTC midnight being a multiple of 86400000 ms); Date.UTC reads a
\* year in 0..99 as 1900 + year
DateUTCDays(year, monthIndex, day) ==
    LET fullYear == IF year \in 0..99 THEN 1900 + year ELSE year
        m   == monthIndex + 1
        y   == IF m <= 2 THEN fullYear - 1 ELSE fullYear
        era == y \div 400
        yoe == y - era * 400
        mp  == IF m > 2 THEN m - 3 ELSE m + 9
        doy == (153 * mp + 2) \div 5 + day - 1
        doe == yoe * 365 + yoe \div 4 - yoe \div 100 + doy
    IN  era * 146097 + doe - 719468

------------------------------------------------------------------------------
(* Collaborators (../utils, ./convertor, ./misc) *)

\* fixIndex(index, max): the index reduced into 0..max-1
fixIndex(index, max) == index % max

\* fixIndex(index): max defaults to 12
fixIndexDefault(index) == fixIndex(index, 12)

\* a solar date is a record [year, month, day]
normalizeSolarDateStr(date) == << date.year, date.month, date.day >>

\* a lunar date is a record [year, month, day]
normalizeLunarDateStr(date) == << date.year, date.month, date.day >>

\* getTerm(year, n): the day of the month on which term n of the year falls
getTerm(year, n) == term

------------------------------------------------------------------------------
(* The pillar rules *)

\* [HEAVENLY_STEMS[offset % 10], EARTHLY_BRANCHES[offset % 12]]
heavenlyStemAndEarthlyBranchFromOffset(offset) ==
    << JsAt(HEAVENLY_STEMS, JsRem(offset, 10)), JsAt(EARTHLY_BRANCHES, JsRem(offset, 12)) >>

heavenlyStemAndEarthlyBranchOfYear(year) ==
    LET stemRem        == JsRem(year - 3, 10)
        branchRem      == JsRem(year - 3, 12)
        heavenStemKey    == IF stemRem = 0 THEN 10 ELSE stemRem
        earthlyBranchKey == IF branchRem = 0 THEN 12 ELSE branchRem
    IN  << JsAt(HEAVENLY_STEMS, heavenStemKey - 1),
           JsAt(EARTHLY_BRANCHES, earthlyBranchKey - 1) >>

\* MonthOffset with the boundary day left in the month before: day > firstNode
MonthOffset_StrictlyAfter(date) ==
    LET ymd       == normalizeSolarDateStr(date)
        firstNode == getTerm(ymd[1], ymd[2] * 2 - 1)
        offset    == (ymd[1] - 1900) * 12 + ymd[2] + 11
    IN  IF ymd[3] > firstNode THEN offset + 1 ELSE offset

\* the offset the month rule hands to heavenlyStemAndEarthlyBranchFromOffset
MonthOffset(date) ==
    LET ymd       == normalizeSolarDateStr(date)
        year      == ymd[1]
        month     == ymd[2]
        day       == ymd[3]
        firstNode == getTerm(year, month * 2 - 1)
        offset    == (year - 1900) * 12 + month + 11
    IN  IF day >= firstNode THEN offset + 1 ELSE offset

heavenlyStemAndEarthlyBranchOfMonth(date) ==
    heavenlyStemAndEarthlyBranchFromOffset(MonthOffset(date))

\* the offset the day rule hands to heavenlyStemAndEarthlyBranchFromOffset
DayOffset(date, timeIndex) ==
    LET ymd         == normalizeSolarDateStr(date)
        year        == ymd[1]
        month       == ymd[2]
        day         == ymd[3]
        dayFix      == IF timeIndex = 12 THEN 1 ELSE 0
        dayCyclical == DateUTCDays(year, month - 1, 1) + 25567 + 10
    IN  dayCyclical + day + dayFix - 1

heavenlyStemAndEarthlyBranchOfDay(date, timeIndex) ==
    heavenlyStemAndEarthlyBranchFromOffset(DayOffset(date, timeIndex))

\* the hour rule with the stem reduced by the default modulus, 12, instead of 10
heavenlyStemAndEarthlyBranchOfTime_OneModulus(timeIndex, heavenlyStemOfDay) ==
    << JsAt(HEAVENLY_STEMS,
            fixIndexDefault(JsIndexOf(HEAVENLY_STEMS, JsRatRule(heavenlyStemOfDay))
                                + fixIndexDefault(timeIndex))),
       JsAt(EARTHLY_BRANCHES, fixIndexDefault(timeIndex)) >>

\* the hour rule reading the branch table at the raw timeIndex
heavenlyStemAndEarthlyBranchOfTime_RawBranch(timeIndex, heavenlyStemOfDay) ==
    << JsAt(HEAVENLY_STEMS,
            fixIndex(JsIndexOf(HEAVENLY_STEMS, JsRatRule(heavenlyStemOfDay))
                         + fixIndexDefault(timeIndex), 10)),
       JsAt(EARTHLY_BRANCHES, timeIndex) >>

heavenlyStemAndEarthlyBranchOfTime(timeIndex, heavenlyStemOfDay) ==
    LET startHeavenlyStem == JsRatRule(heavenlyStemOfDay)
        heavenlyStem ==
            JsAt(HEAVENLY_STEMS,
                 fixIndex(JsIndexOf(HEAVENLY_STEMS, startHeavenlyStem)
                              + fixIndexDefault(timeIndex), 10))
        earthlyBranch == JsAt(EARTHLY_BRANCHES, fixIndexDefault(timeIndex))
    IN  << heavenlyStem, earthlyBranch >>

------------------------------------------------------------------------------
(* The calendar conversions (./convertor), over the lunar months tabulated *)

\* the lunar months of the table: the solar date of day 1 and the length
LunarMonths ==
    { [year |-> 2023, month |-> 1,  leap |-> FALSE, days |-> 29,
       start |-> [year |-> 2023, month |-> 1, day |-> 22]],
      [year |-> 2023, month |-> 2,  leap |-> FALSE, days |-> 30,
       start |-> [year |-> 2023, month |-> 2, day |-> 20]],
      [year |-> 2023, month |-> 2,  leap |-> TRUE,  days |-> 29,
       start |-> [year |-> 2023, month |-> 3, day |-> 22]],
      [year |-> 2023, month |-> 11, leap |-> FALSE, days |-> 29,
       start |-> [year |-> 2023, month |-> 12, day |-> 13]],
      [year |-> 2023, month |-> 12, leap |-> FALSE, days |-> 30,
       start |-> [year |-> 2024, month |-> 1, day |-> 11]],
      [year |-> 2024, month |-> 1,  leap |-> FALSE, days |-> 29,
       start |-> [year |-> 2024, month |-> 2, day |-> 10]] }

\* the solar date of day 1 of month 1 of a lunar year
LunarNewYear ==
    [ y \in {1900, 2023, 2024} |->
        CASE y = 1900 -> [year |-> 1900, month |-> 1, day |-> 31]
          [] y = 2023 -> [year |-> 2023, month |-> 1, day |-> 22]
          [] y = 2024 -> [year |-> 2024, month |-> 2, day |-> 10] ]

\* the calendar day after a solar date
NextDay(date) ==
    IF date.day < DaysInMonth(date.year, date.month)
    THEN [date EXCEPT !.day = date.day + 1]
    ELSE IF date.month < 12
         THEN [year |-> date.year, month |-> date.month + 1, day |-> 1]
         ELSE [year |-> date.year + 1, month |-> 1, day |-> 1]

RECURSIVE AddDays(_, _)
AddDays(date, n) == IF n = 0 THEN date ELSE AddDays(NextDay(date), n - 1)

Before(a, b) ==
    a.year * 10000 + a.month * 100 + a.day < b.year * 10000 + b.month * 100 + b.day

\* the lunar dates lunar2solar accepts, with their leap flag
LunarAccepted(date, isLeap) ==
    \E lm \in LunarMonths :
        /\ lm.year = date.year /\ lm.month = date.month /\ lm.leap = isLeap
        /\ date.day \in 1..lm.days

lunar2solar(date, isLeap) ==
    LET lm == CHOOSE e \in LunarMonths :
                  e.year = date.year /\ e.month = date.month /\ e.leap = isLeap
    IN  AddDays(lm.start, date.day - 1)

\* the solar dates solar2lunar accepts: none before the first lunar new year
SolarAccepted(date) ==
    /\ date.year \in DOMAIN LunarNewYear
    /\ ~(date.year = 1900 /\ Before(date, LunarNewYear[1900]))

solar2lunar(date) ==
    [ lunarYear |-> IF Before(date, LunarNewYear[date.year])
                    THEN date.year - 1 ELSE date.year ]

------------------------------------------------------------------------------
(* The aggregate queries *)

\* new Date(str): a date string is modelled by the calendar date it denotes
NewDate(dateStr) == dateStr

\* the string with the space between the daily and the timely pillar left out
toString_MissingSpace(yearly, monthly, daily, timely) ==
    JsJoin(yearly) \o <<" ">> \o JsJoin(monthly) \o <<" ">>
        \o JsJoin(daily) \o JsJoin(timely)

\* `${yearly.join('')} ${monthly.join('')} ${daily.join('')} ${timely.join('')}`
toString(yearly, monthly, daily, timely) ==
    JsJoin(yearly) \o <<" ">> \o JsJoin(monthly) \o <<" ">>
        \o JsJoin(daily) \o <<" ">> \o JsJoin(timely)

getHeavenlyStemAndEarthlyBranchByLunarDate(dateStr, timeIndex, isLeap) ==
    LET lunarYear == normalizeLunarDateStr(dateStr)[1]
        solar     == lunar2solar(dateStr, isLeap)
        solarDate == NewDate(solar)
        yearly    == heavenlyStemAndEarthlyBranchOfYear(lunarYear)
        monthly   == heavenlyStemAndEarthlyBranchOfMonth(solarDate)
        daily     == heavenlyStemAndEarthlyBranchOfDay(solarDate, timeIndex)
        timely    == heavenlyStemAndEarthlyBranchOfTime(timeIndex, daily[1])
    IN  [ yearly |-> yearly, monthly |-> monthly, daily |-> daily, timely |-> timely,
          str |-> toString(yearly, monthly, daily, timely) ]

\* the solar entry point taking the year pillar from the solar year of the date
getHeavenlyStemAndEarthlyBranchBySolarDate_SolarYear(dateStr, timeIndex) ==
    LET solarDate == NewDate(dateStr)
        yearly    == heavenlyStemAndEarthlyBranchOfYear(normalizeSolarDateStr(solarDate)[1])
        monthly   == heavenlyStemAndEarthlyBranchOfMonth(solarDate)
        daily     == heavenlyStemAndEarthlyBranchOfDay(solarDate, timeIndex)
        timely    == heavenlyStemAndEarthlyBranchOfTime(timeIndex, daily[1])
    IN  [ yearly |-> yearly, monthly |-> monthly, daily |-> daily, timely |-> timely,
          str |-> toString(yearly, monthly, daily, timely) ]

getHeavenlyStemAndEarthlyBranchBySolarDate(dateStr, timeIndex) ==
    LET solarDate == NewDate(dateStr)
        lunarYear == solar2lunar(dateStr).lunarYear
        yearly    == heavenlyStemAndEarthlyBranchOfYear(lunarYear)
        monthly   == heavenlyStemAndEarthlyBranchOfMonth(solarDate)
        daily     == heavenlyStemAndEarthlyBranchOfDay(solarDate, timeIndex)
        timely    == heavenlyStemAndEarthlyBranchOfTime(timeIndex, daily[1])
    IN  [ yearly |-> yearly, monthly |-> monthly, daily |-> daily, timely |-> timely,
          str |-> toString(yearly, monthly, daily, timely) ]

------------------------------------------------------------------------------
(* Inputs *)

YearInputs == ((0 - MaxYearSpan)..MaxYearSpan) \cup (1900..(1984 + MaxYearSpan))

TermDays == 4..MaxTermDay

\* double-hour indices, 12 being the late-Zi sentinel
TimeIndexes == 0..12

DatesOf(years) ==
    { [year |-> y, month |-> m, day |-> d] :
        y \in years, m \in 1..12, d \in 1..31 } 

ValidDate(date) == date.day <= DaysInMonth(date.year, date.month)

\* solar dates handed to the month and day rules, before and after 1900
RuleDates == { d \in DatesOf({1898, 1899, 1900, 2000, 2023}) : ValidDate(d) }

\* solar dates handed to the solar entry point
SolarInputs ==
    { d \in DatesOf(DOMAIN LunarNewYear) : ValidDate(d) /\ SolarAccepted(d) }

\* lunar dates handed to the lunar entry point
LunarInputs ==
    { [year |-> lm.year, month |-> lm.month, day |-> d] :
        lm \in LunarMonths, d \in 1..30 }

------------------------------------------------------------------------------
(* The calls *)

Init ==
    /\ term \in TermDays
    /\ fn = "idle"
    /\ args = << >>
    /\ result = << >>

CallOfYear ==
    /\ fn = "idle"
    /\ \E year \in YearInputs :
        /\ args' = [year |-> year]
        /\ result' = heavenlyStemAndEarthlyBranchOfYear(year)
    /\ fn' = "OfYear"
    /\ UNCHANGED term

CallOfMonth ==
    /\ fn = "idle"
    /\ \E date \in RuleDates :
        /\ args' = [date |-> date]
        /\ result' = heavenlyStemAndEarthlyBranchOfMonth(date)
    /\ fn' = "OfMonth"
    /\ UNCHANGED term

CallOfDay ==
    /\ fn = "idle"
    /\ \E date \in RuleDates, timeIndex \in TimeIndexes :
        /\ args' = [date |-> date, timeIndex |-> timeIndex]
        /\ result' = heavenlyStemAndEarthlyBranchOfDay(date, timeIndex)
    /\ fn' = "OfDay"
    /\ UNCHANGED term

CallOfTime ==
    /\ fn = "idle"
    /\ \E timeIndex \in TimeIndexes, stem \in StemSet :
        /\ args' = [timeIndex |-> timeIndex, heavenlyStemOfDay |-> stem]
        /\ result' = heavenlyStemAndEarthlyBranchOfTime(timeIndex, stem)
    /\ fn' = "OfTime"
    /\ UNCHANGED term

CallByLunarDate ==
    /\ fn = "idle"
    /\ \E date \in LunarInputs, timeIndex \in TimeIndexes, isLeap \in BOOLEAN :
        /\ LunarAccepted(date, isLeap)
        /\ args' = [date |-> date, timeIndex |-> timeIndex, isLeap |-> isLeap]
        /\ result' = getHeavenlyStemAndEarthlyBranchByLunarDate(date, timeIndex, isLeap)
    /\ fn' = "ByLunarDate"
    /\ UNCHANGED term

CallBySolarDate ==
    /\ fn = "idle"
    /\ \E date \in SolarInputs, timeIndex \in TimeIndexes :
        /\ args' = [date |-> date, timeIndex |-> timeIndex]
        /\ result' = getHeavenlyStemAndEarthlyBranchBySolarDate(date, timeIndex)
    /\ fn' = "BySolarDate"
    /\ UNCHANGED term

Next ==
    \/ CallOfYear
    \/ CallOfMonth
    \/ CallOfDay
    \/ CallOfTime
    \/ CallByLunarDate
    \/ CallBySolarDate

Spec == Init /\ [][Next]_vars

------------------------------------------------------------------------------
(* What the properties are stated with: the sexagenary cycle itself *)

IsPillar(p) == p[1] \in StemSet /\ p[2] \in BranchSet

\* the pillar at position n of the cycle, n any integer (true modular reduction)
PillarAt(n) == << HEAVENLY_STEMS[(n % 10) + 1], EARTHLY_BRANCHES[(n % 12) + 1] >>

\* the pillar one position after pillar p
Successor(p) ==
    << HEAVENLY_STEMS[((JsIndexOf(HEAVENLY_STEMS, p[1]) + 1) % 10) + 1],
       EARTHLY_BRANCHES[((JsIndexOf(EARTHLY_BRANCHES, p[2]) + 1) % 12) + 1] >>

\* a remainder in the 1-based convention: 0 stands for the modulus
OneBased(r, m) == IF r = 0 THEN m ELSE r

\* str.split(sep) on a sequence of symbols
RECURSIVE Split(_, _)
Split(str, sep) ==
    IF \E i \in 1..Len(str) : str[i] = sep
    THEN LET i == CHOOSE k \in 1..Len(str) :
                      str[k] = sep /\ \A j \in 1..(k - 1) : str[j] # sep
         IN  << SubSeq(str, 1, i - 1) >> \o Split(SubSeq(str, i + 1, Len(str)), sep)
    ELSE << str >>

Aggregates == {"ByLunarDate", "BySolarDate"}

\* the solar date an aggregate call computes its month and day pillars from
SolarDateOfCall ==
    IF fn = "ByLunarDate" THEN lunar2solar(args.date, args.isLeap) ELSE args.date

------------------------------------------------------------------------------
(* C1 *)

\* C1: the year pillar has period 60: for every integer year y, zero and
\* negative years included, heavenlyStemAndEarthlyBranchOfYear(y) is the
\* pillar of year y + 60.
C1_YearPeriod60 ==
    fn = "OfYear" => result = heavenlyStemAndEarthlyBranchOfYear(args.year + 60)

------------------------------------------------------------------------------
(* C2 *)

\* C2: for every integer year the year pillar is (HEAVENLY_STEMS[s - 1],
\* EARTHLY_BRANCHES[b - 1]) with s = (year - 3) mod 10 and b = (year - 3) mod 12,
\* a remainder 0 standing for 10 and 12; year 1984 gives the first stem with the
\* first branch and 1983 the last stem with the last branch.  (The tables here
\* are 1-based, so the zero-based index s - 1 is position s.)
C2_YearPillarFormula ==
    fn = "OfYear" =>
        /\ result = << HEAVENLY_STEMS[OneBased((args.year - 3) % 10, 10)],
                       EARTHLY_BRANCHES[OneBased((args.year - 3) % 12, 12)] >>
        /\ args.year = 1984 => result = << "jiaHeavenly", "ziEarthly" >>
        /\ args.year = 1983 => result = << "guiHeavenly", "haiEarthly" >>

------------------------------------------------------------------------------
(* C3 *)

------------------------------------------------------------------------------
(* C4 *)

\* C4: for every solar date the day pillar at timeIndex 12 is the pillar one
\* position after the day pillar at timeIndex 11, and for timeIndex in 0..11 the
\* day pillar does not depend on timeIndex.
C4_LateZiOneAhead ==
    fn = "OfDay" =>
        /\ args.timeIndex = 12 =>
              /\ IsPillar(heavenlyStemAndEarthlyBranchOfDay(args.date, 11))
              /\ result = Successor(heavenlyStemAndEarthlyBranchOfDay(args.date, 11))
        /\ args.timeIndex \in 0..11 =>
              result = heavenlyStemAndEarthlyBranchOfDay(args.date, 0)

------------------------------------------------------------------------------
(* C5 *)

\* C5: for a fixed timeIndex the day pillar of the day after a date is the
\* successor, in the 60-cycle, of the day pillar of the date, for any date
\* (month ends, year ends and leap days included).
C5_ConsecutiveDays ==
    fn = "OfDay" =>
        /\ IsPillar(result)
        /\ heavenlyStemAndEarthlyBranchOfDay(NextDay(args.date), args.timeIndex)
               = Successor(result)

------------------------------------------------------------------------------
(* C6 *)

\* C6: for every day stem and timeIndex in 0..11 the hour pillar has the stem
\* timeIndex steps (mod 10) after the rat-rule start stem of the day stem, and
\* the branch EARTHLY_BRANCHES[timeIndex]; day stem jia with timeIndex 0 gives
\* (jia, zi).
C6_HourPillar ==
    (fn = "OfTime" /\ args.timeIndex \in 0..11) =>
        LET start == JsIndexOf(HEAVENLY_STEMS, RAT_RULE[args.heavenlyStemOfDay])
        IN  /\ result = << HEAVENLY_STEMS[((start + (args.timeIndex % 10)) % 10) + 1],
                           EARTHLY_BRANCHES[args.timeIndex + 1] >>
            /\ (args.heavenlyStemOfDay = "jiaHeavenly" /\ args.timeIndex = 0)
                   => result = << "jiaHeavenly", "ziEarthly" >>

\* the last double-hour of a gui day: ten or more steps after the start stem
C6_Witness ==
    /\ fn = "OfTime"
    /\ args.timeIndex = 11
    /\ args.heavenlyStemOfDay = "guiHeavenly"
    /\ result = << "guiHeavenly", "haiEarthly" >>

------------------------------------------------------------------------------
(* C7 *)

------------------------------------------------------------------------------
(* C8 *)

\* C8: the string of every aggregate result is four tokens separated by single
\* spaces, each token one stem followed by one branch, in the order yearly,
\* monthly, daily, timely.
C8_ToStringShape ==
    fn \in Aggregates =>
        LET tokens == Split(result.str, " ")
        IN  /\ Len(tokens) = 4
            /\ \A i \in 1..Len(tokens) :
                  /\ Len(tokens[i]) = 2
                  /\ tokens[i][1] \in StemSet
                  /\ tokens[i][2] \in BranchSet
            /\ tokens = << result.yearly, result.monthly, result.daily, result.timely >>

\* 2023-06-22 in the seventh double-hour: gui-mao wu-wu xin-hai jia-wu
C8_Witness ==
    /\ fn = "BySolarDate"
    /\ args.date = [year |-> 2023, month |-> 6, day |-> 22]
    /\ args.timeIndex = 6
    /\ result.str = << "guiHeavenly", "maoEarthly", " ", "wuHeavenly", "wuEarthly", " ",
                       "xinHeavenly", "haiEarthly", " ", "jiaHeavenly", "wuEarthly" >>

------------------------------------------------------------------------------
(* C9 *)

\* C9: the offset-to-pillar mapping of the month and day rules never reads the
\* tables at an unnormalized index: for every offset, zero and negative ones
\* (solar dates before 1900) included, the stem is the one at offset mod 10 in
\* 0..9 and the branch the one at offset mod 12 in 0..11.
C9_OffsetNormalized ==
    /\ fn = "OfMonth" => result = PillarAt(MonthOffset(args.date))
    /\ fn = "OfDay" => result = PillarAt(DayOffset(args.date, args.timeIndex))

------------------------------------------------------------------------------
(* C10 *)

\* C10: in both aggregate queries a timeIndex of 12 counts as 0 for the hour
\* pillar: timely is heavenlyStemAndEarthlyBranchOfTime(0, daily[0]), that is
\* the first branch with the rat-rule start stem of the daily stem returned,
\* daily being the day pillar of the following day.
C10_LateZiHour ==
    (fn \in Aggregates /\ args.timeIndex = 12) =>
        /\ result.timely = heavenlyStemAndEarthlyBranchOfTime(0, result.daily[1])
        /\ result.daily[1] \in StemSet
        /\ result.timely = << RAT_RULE[result.daily[1]], "ziEarthly" >>
        /\ result.daily = Successor(heavenlyStemAndEarthlyBranchOfDay(SolarDateOfCall, 0))
        /\ result.daily = heavenlyStemAndEarthlyBranchOfDay(NextDay(SolarDateOfCall), 0)

\* late Zi of 2023-07-04 (a gui-hai day): the daily pillar is jia-zi, the first
\* of the cycle, and the hour pillar jia-zi
C10_Witness ==
    /\ fn = "BySolarDate"
    /\ args.date = [year |-> 2023, month |-> 7, day |-> 4]
    /\ args.timeIndex = 12
    /\ result.daily = << "jiaHeavenly", "ziEarthly" >>
    /\ result.timely = << "jiaHeavenly", "ziEarthly" >>

====
